---------------------------- MODULE Spec2Model ----------------------------
(***************************************************************************)
(* A model of the DevOps-Guardian agent system:                            *)
(*   - GitHubService (agent-system/services/github-service.js): the five   *)
(*     asynchronous API operations and the synchronous log extractor;      *)
(*   - the Express application (unnamed/part_000), POST /agent/analyze.    *)
(*                                                                         *)
(* Text is a sequence of one-character strings.  A Buffer is the sequence  *)
(* of its bytes; an ASCII byte is written as the character it encodes and  *)
(* "0xFF" is a byte that is not valid UTF-8.                               *)
(***************************************************************************)
EXTENDS Integers, Sequences, FiniteSets, TLC

VARIABLES
  logBuffer,   \* the argument of extractErrorsFromLogs
  extracted,   \* what the call did: "pending" before it, its outcome after
  remote,      \* what the remote API holds: the runs, jobs and logs bodies
  stack,       \* the frames of the operation in progress, innermost last
  pending,     \* an axios.get is in flight
  signal,      \* what the top frame's await settled with
  requests,    \* the GETs the operation in progress has issued
  rejected,    \* the error axios.get rejected with, if it did
  outcome,     \* what the caller of the operation got
  invoked,     \* the operation the caller invoked, and its runId
  calls,       \* operations completed
  nextId,      \* the identity the next error object gets
  prevReport,  \* the report of the extractFailureInfo call just before
  serverUp,    \* the server process runs
  served,      \* requests the server was sent
  lastBody,    \* the body of the last POST /agent/analyze
  lastRes      \* the response it got

logVars == <<logBuffer, extracted>>

apiVars == <<remote, stack, pending, signal, requests, rejected, outcome,
             invoked, calls, nextId, prevReport>>

httpVars == <<serverUp, served, lastBody, lastRes>>

vars == <<logVars, apiVars, httpVars>>

-----------------------------------------------------------------------------
(* Bounds of the model *)

MaxTokens == 3   \* tokens in a token-built log text
MaxLines == 3    \* lines in a line-built log text
MaxOver == 2     \* how far past a program limit (50 matches, 2000 chars) inputs go

-----------------------------------------------------------------------------
(* Sequence helpers (JavaScript Array / String built-ins) *)

Min(a, b) == IF a <= b THEN a ELSE b

Max(a, b) == IF a >= b THEN a ELSE b

\* Array.prototype.slice(0, n) / String.prototype.slice(0, n)
SliceFirst(s, n) == SubSeq(s, 1, Min(n, Len(s)))

\* String.prototype.slice(-n): the last n characters, the whole when shorter
SliceLast(s, n) == SubSeq(s, Max(Len(s) - n, 0) + 1, Len(s))

RECURSIVE Flatten(_)
\* the concatenation of a sequence of sequences
Flatten(ss) == IF ss = <<>> THEN <<>> ELSE Head(ss) \o Flatten(Tail(ss))

RECURSIVE Join(_, _)
\* Array.prototype.join(sep)
Join(list, sep) ==
  IF list = <<>> THEN <<>>
  ELSE IF Len(list) = 1 THEN list[1]
  ELSE list[1] \o sep \o Join(Tail(list), sep)

\* the smallest element of a non-empty set of integers
Least(S) == CHOOSE i \in S : \A j \in S : i <= j

RECURSIVE SplitOn(_, _)
\* String.prototype.split on a set of one-character separators
SplitOn(text, seps) ==
  LET cut == {i \in 1..Len(text) : text[i] \in seps}
  IN IF cut = {} THEN <<text>>
     ELSE LET i == Least(cut)
          IN <<SubSeq(text, 1, i - 1)>> \o SplitOn(SubSeq(text, i + 1, Len(text)), seps)

RECURSIVE Digits(_)
\* the decimal numeral of a natural number
Digits(n) ==
  LET d == <<"0", "1", "2", "3", "4", "5", "6", "7", "8", "9">>
  IN IF n < 10 THEN <<d[n + 1]>> ELSE Digits(n \div 10) \o <<d[(n % 10) + 1]>>

\* all sequences over S of length at most n
SeqsUpTo(S, n) == UNION {[1..k -> S] : k \in 0..n}

-----------------------------------------------------------------------------
(* Regular expressions of extractErrorsFromLogs: /<literal>.+/gi *)

\* The six patterns, in declared order: each is a literal followed by .+
errorPatterns == <<
  <<"E", "r", "r", "o", "r", ":">>,
  <<"E", "R", "R", "O", "R", ":">>,
  <<"F", "a", "i", "l", "e", "d", ":">>,
  <<"F", "A", "I", "L", "E", "D", ":">>,
  <<"[", "e", "r", "r", "o", "r", "]">>,
  <<"f", "a", "t", "a", "l", ":">> >>

\* Characters the regular expression's . does not match
LineTerminators == {"\n", "\r", "U+2028", "U+2029"}

\* Case folding of the i flag (ASCII letters)
Fold ==
  [c \in {"A","B","C","D","E","F","G","H","I","J","K","L","M",
          "N","O","P","Q","R","S","T","U","V","W","X","Y","Z"} |->
     CASE c = "A" -> "a" [] c = "B" -> "b" [] c = "C" -> "c" [] c = "D" -> "d"
       [] c = "E" -> "e" [] c = "F" -> "f" [] c = "G" -> "g" [] c = "H" -> "h"
       [] c = "I" -> "i" [] c = "J" -> "j" [] c = "K" -> "k" [] c = "L" -> "l"
       [] c = "M" -> "m" [] c = "N" -> "n" [] c = "O" -> "o" [] c = "P" -> "p"
       [] c = "Q" -> "q" [] c = "R" -> "r" [] c = "S" -> "s" [] c = "T" -> "t"
       [] c = "U" -> "u" [] c = "V" -> "v" [] c = "W" -> "w" [] c = "X" -> "x"
       [] c = "Y" -> "y" [] c = "Z" -> "z"]

Canonicalize(c) == IF c \in DOMAIN Fold THEN Fold[c] ELSE c

\* the literal occurs in text at index i, whatever the letter case
LiteralAt(text, lit, i) ==
  /\ i + Len(lit) - 1 <= Len(text)
  /\ \A k \in 1..Len(lit) : Canonicalize(text[i + k - 1]) = Canonicalize(lit[k])

\* DotMatches with a fault: the s flag, . matches line terminators too
DotMatchesAll(c) == TRUE

\* . matches any character but a line terminator
DotMatches(c) == c \notin LineTerminators

\* /<lit>.+/ matches at index i: the literal, then at least one . character
MatchAt(text, lit, i) ==
  /\ LiteralAt(text, lit, i)
  /\ i + Len(lit) <= Len(text)
  /\ DotMatches(text[i + Len(lit)])

\* the greedy .+ started at index j ends at the last index of the run of
\* . characters that holds j
DotRunEnd(text, j) ==
  LET stop == {k \in j..Len(text) : ~DotMatches(text[k])}
  IN IF stop = {} THEN Len(text) ELSE Least(stop) - 1

RECURSIVE MatchAllFrom(_, _, _)
\* the g flag: the leftmost match at or after lastIndex, then the next one
\* from where it ended, until none is left
MatchAllFrom(text, lit, lastIndex) ==
  LET at == {i \in lastIndex..Len(text) : MatchAt(text, lit, i)}
  IN IF at = {} THEN <<>>
     ELSE LET i == Least(at)
              e == DotRunEnd(text, i + Len(lit))
          IN <<SubSeq(text, i, e)>> \o MatchAllFrom(text, lit, e + 1)

\* StringMatch with a fault: without the g flag, the first match only
StringMatchFirst(text, lit) ==
  LET all == MatchAllFrom(text, lit, 1)
  IN [isNull |-> all = <<>>, list |-> SubSeq(all, 1, Min(1, Len(all)))]

\* String.prototype.match with a global pattern: null when nothing matches,
\* else the array of all matches
StringMatch(text, lit) ==
  LET all == MatchAllFrom(text, lit, 1)
  IN [isNull |-> all = <<>>, list |-> all]

-----------------------------------------------------------------------------
(* GitHubService.extractErrorsFromLogs *)

MaxErrors == 50     \* errors.slice(0, 50)

TailLength == 2000  \* logText.slice(-2000)

UnableToParse ==
  <<"U", "n", "a", "b", "l", "e", " ", "t", "o", " ", "p", "a", "r", "s", "e",
    " ", "l", "o", "g", " ", "c", "o", "n", "t", "e", "n", "t">>

\* "[object Object]"
ObjectObject ==
  <<"[", "o", "b", "j", "e", "c", "t", " ", "O", "b", "j", "e", "c", "t", "]">>

\* UTF-8 decoding of a Buffer: an invalid byte becomes U+FFFD
DecodeUtf8(bytes) ==
  [i \in 1..Len(bytes) |-> IF bytes[i] = "0xFF" THEN "U+FFFD" ELSE bytes[i]]

\* logBuffer.toString('utf-8'), by the type of logBuffer:
\*   Buffer     Buffer.prototype.toString decodes the bytes
\*   string     String.prototype.toString returns the string
\*   null, undefined          reading .toString throws a TypeError
\*   number     Number.prototype.toString('utf-8') throws a RangeError (radix)
\*   object     Object.prototype.toString returns "[object Object]"
\*   bareObject (no prototype) .toString is undefined: TypeError
\*   oddObject  its own toString returns a number, not a string
ToStringUtf8(buf) ==
  CASE buf.type = "Buffer" -> [threw |-> FALSE, isString |-> TRUE, text |-> DecodeUtf8(buf.data)]
    [] buf.type = "string" -> [threw |-> FALSE, isString |-> TRUE, text |-> buf.data]
    [] buf.type = "object" -> [threw |-> FALSE, isString |-> TRUE, text |-> ObjectObject]
    [] buf.type = "oddObject" -> [threw |-> FALSE, isString |-> FALSE, text |-> <<>>]
    [] OTHER -> [threw |-> TRUE, isString |-> FALSE, text |-> <<>>]

RECURSIVE CollectErrors(_, _, _)
\* the for loop over errorPatterns from the k-th on: errors grows by the
\* matches of each pattern that has any
CollectErrors(logText, errors, k) ==
  IF k > Len(errorPatterns) THEN errors
  ELSE LET matches == StringMatch(logText, errorPatterns[k])
       IN CollectErrors(logText,
                        IF ~matches.isNull THEN errors \o matches.list ELSE errors,
                        k + 1)

\* SliceErrors with a fault: the list is joined uncut
SliceErrorsUncut(errors) == errors

\* errors.slice(0, 50)
SliceErrors(errors) == SliceFirst(errors, MaxErrors)

\* TailExcerpt with a fault: slice(0, 2000), the head of the log
TailExcerptHead(logText) == SliceFirst(logText, TailLength)

\* logText.slice(-2000)
TailExcerpt(logText) == SliceLast(logText, TailLength)

\* CatchParse with a fault: the catch clause throws the error on
CatchRethrow(logText) ==
  [raised |-> TRUE, branch |-> "catch", value |-> <<>>,
   logText |-> logText, errors |-> <<>>]

\* the catch clause: logs, and returns the fixed message
CatchParse(logText) ==
  [raised |-> FALSE, branch |-> "catch", value |-> UnableToParse,
   logText |-> logText, errors |-> <<>>]

\* the body of the try block, once logText is a string
TryExtract(logText) ==
  LET errors == CollectErrors(logText, <<>>, 1)
      errorText == Join(SliceErrors(errors), <<"\n">>)
  IN IF Len(errorText) > 0
     THEN [raised |-> FALSE, branch |-> "errors", value |-> errorText,
           logText |-> logText, errors |-> errors]
     ELSE [raised |-> FALSE, branch |-> "tail", value |-> TailExcerpt(logText),
           logText |-> logText, errors |-> errors]

\* What a call does: raised (an exception left the function) or returned
\* value, a string, through one of the three return statements (branch);
\* logText and errors are the locals at that point.
extractErrorsFromLogs(buf) ==
  LET conv == ToStringUtf8(buf)
  IN IF conv.threw THEN CatchParse(<<>>)
     ELSE IF ~conv.isString THEN CatchParse(<<>>)  \* logText.match is not a function
     ELSE TryExtract(conv.text)

-----------------------------------------------------------------------------
(* Inputs of extractErrorsFromLogs *)

ScenarioLog ==
  <<"f", "o", "o", "\n", "E", "r", "r", "o", "r", ":", " ", "d", "i", "s", "k",
    " ", "f", "u", "l", "l", "\n", "b", "a", "r", "\n", "E", "R", "R", "O", "R",
    ":", " ", "r", "e", "t", "r", "y", " ", "f", "a", "i", "l", "e", "d", "\n">>

Tokens == {
  <<"E", "r", "r", "o", "r", ":">>,
  <<"F", "A", "I", "L", "E", "D", ":">>,
  <<"[", "e", "r", "r", "o", "r", "]">>,
  <<"f", "a", "t", "a", "l", ":">>,
  <<"x">>, <<"\n">>, <<"\r">>, <<"0xFF">> }

TokenTexts == {Flatten(ts) : ts \in SeqsUpTo(Tokens, MaxTokens)}

LineKinds == {
  <<"E", "r", "r", "o", "r", ":", " ", "a">>,
  <<"x", " ", "E", "R", "R", "O", "R", ":", " ", "b">>,
  <<"f", "a", "t", "a", "l", ":", " ", "c">>,
  <<"[", "e", "r", "r", "o", "r", "]", " ", "d">>,
  <<"F", "a", "i", "l", "e", "d", ":">>,
  <<"o", "k">> }

LineTexts == {Join(ls, <<"\n">>) : ls \in SeqsUpTo(LineKinds, MaxLines)}

\* n numbered lines "<prefix><i>\n"
NumberedLines(prefix, n) == Flatten([i \in 1..n |-> prefix \o Digits(i) \o <<"\n">>])

\* logs with about MaxErrors matches: each "fatal: i" line matches one pattern,
\* each "Error: i" line matches two
ManyTexts ==
  {NumberedLines(<<"f", "a", "t", "a", "l", ":", " ">>, n) :
     n \in (MaxErrors - 1)..(MaxErrors + MaxOver)}
  \cup
  {NumberedLines(<<"E", "r", "r", "o", "r", ":", " ">>, n) :
     n \in (MaxErrors \div 2 - 1)..(MaxErrors \div 2 + MaxOver)}

\* n characters, the i-th being the last digit of i
Filler(n) == [i \in 1..n |-> Digits(i % 10)[1]]

\* logs of about TailLength characters, with and without a match at the end
LongTexts ==
  {Filler(n) \o tail :
     n \in (TailLength - MaxOver)..(TailLength + MaxOver),
     tail \in {<<>>, <<"\n", "E", "r", "r", "o", "r", ":">>,
               <<"\n", "f", "a", "t", "a", "l", ":", " ", "c">>}}

LogTexts == TokenTexts \cup LineTexts \cup ManyTexts \cup LongTexts \cup {ScenarioLog}

LogBuffers ==
  {[type |-> "Buffer", data |-> t] : t \in LogTexts}
  \cup {[type |-> "string", data |-> t] : t \in LineTexts \cup {ScenarioLog}}
  \cup {[type |-> ty, data |-> <<>>] :
          ty \in {"null", "undefined", "number", "object", "bareObject", "oddObject"}}

-----------------------------------------------------------------------------
(* JavaScript values of the API operations *)

Undefined == [tag |-> "undefined"]

Null == [tag |-> "null"]

\* an array value
Array(items) == [tag |-> "array", items |-> items]

\* a || b: b when a is undefined or null (an array or an object is truthy)
OrElse(a, b) == IF a.tag \in {"undefined", "null"} THEN b ELSE a

\* what an async function hands to its caller
Return(v) == [kind |-> "return", value |-> v]

Throw(e) == [kind |-> "throw", error |-> e]

NoSignal == [kind |-> "none"]

-----------------------------------------------------------------------------
(* GitHubService: the continuations of the five asynchronous operations.   *)
(* Each gets what its await settled with: sig is Return(v) or Throw(e).    *)

\* getWorkflowRuns: params as line 31-37 builds them; a falsy status or
\* conclusion (written "") is left out
RunsParams(status, conclusion) ==
  [per_page |-> 10, page |-> 1,
   status |-> IF status # "" THEN status ELSE "(absent)",
   conclusion |-> IF conclusion # "" THEN conclusion ELSE "(absent)"]

\* the catch clauses with a fault: the error is wrapped in a new Error, which
\* has no response
WrapError(error) == [id |-> 0, message |-> error.message, response |-> Undefined]

\* getWorkflowRuns, catch: logs the message, status and data; throw error
catch_getWorkflowRuns(error) == error

\* getLastFailedRun, catch: logs the message; throw error
catch_getLastFailedRun(error) == error

\* getWorkflowRunLogs, catch: logs the message and status; throw error
catch_getWorkflowRunLogs(error) == error

\* getWorkflowRunJobs, catch: logs the message; throw error
catch_getWorkflowRunJobs(error) == error

\* extractFailureInfo, catch: logs the message; throw error
catch_extractFailureInfo(error) == error

\* getWorkflowRuns after await axios.get
then_getWorkflowRuns(sig) ==
  IF sig.kind = "throw" THEN Throw(catch_getWorkflowRuns(sig.error))
  ELSE Return(OrElse(sig.value.data.workflow_runs, Array(<<>>)))

\* SelectLastFailedRun with a fault: the runs are sorted locally, the newest
\* by created_at is returned
SelectNewestRun(runs) ==
  IF Len(runs.items) = 0 THEN Null
  ELSE CHOOSE r \in {runs.items[i] : i \in 1..Len(runs.items)} :
         \A i \in 1..Len(runs.items) : runs.items[i].created_at <= r.created_at

\* getLastFailedRun, lines 69-77: null for no runs, else runs[0]
SelectLastFailedRun(runs) ==
  IF Len(runs.items) = 0 THEN Null ELSE runs.items[1]

\* getLastFailedRun after await this.getWorkflowRuns
then_getLastFailedRun(sig) ==
  IF sig.kind = "throw" THEN Throw(catch_getLastFailedRun(sig.error))
  ELSE Return(SelectLastFailedRun(sig.value))

\* getWorkflowRunLogs after await axios.get
then_getWorkflowRunLogs(sig) ==
  IF sig.kind = "throw" THEN Throw(catch_getWorkflowRunLogs(sig.error))
  ELSE Return(sig.value.data)

\* getWorkflowRunJobs after await axios.get
then_getWorkflowRunJobs(sig) ==
  IF sig.kind = "throw" THEN Throw(catch_getWorkflowRunJobs(sig.error))
  ELSE Return(OrElse(sig.value.data.jobs, Array(<<>>)))

\* Array.prototype.filter(x => x.conclusion === 'failure')
FilterFailure(items) == SelectSeq(items, LAMBDA x : x.conclusion = "failure")

\* FailedSteps with a fault: the steps are mapped unfiltered
AllSteps(job) ==
  [k \in 1..Len(job.steps) |->
     [name |-> job.steps[k].name, number |-> job.steps[k].number,
      conclusion |-> job.steps[k].conclusion,
      startedAt |-> job.steps[k].started_at,
      completedAt |-> job.steps[k].completed_at]]

\* job.steps.filter(...).map(...), lines 155-163
FailedSteps(job) ==
  LET failed == FilterFailure(job.steps)
  IN [k \in 1..Len(failed) |->
        [name |-> failed[k].name, number |-> failed[k].number,
         conclusion |-> failed[k].conclusion,
         startedAt |-> failed[k].started_at,
         completedAt |-> failed[k].completed_at]]

\* the failureInfo object, lines 145-165
failureInfo(runId, jobs) ==
  LET failedJobs == FilterFailure(jobs)
  IN [runId |-> runId,
      failedJobsCount |-> Len(failedJobs),
      failedJobs |->
        [k \in 1..Len(failedJobs) |->
           [name |-> failedJobs[k].name,
            conclusion |-> failedJobs[k].conclusion,
            startedAt |-> failedJobs[k].started_at,
            completedAt |-> failedJobs[k].completed_at,
            failedSteps |-> FailedSteps(failedJobs[k])]]]

\* extractFailureInfo after await this.getWorkflowRunJobs
then_extractFailureInfo(sig, runId) ==
  IF sig.kind = "throw" THEN Throw(catch_extractFailureInfo(sig.error))
  ELSE Return(failureInfo(runId, sig.value.items))

-----------------------------------------------------------------------------
(* The remote API: what it holds, and how a GET can fail *)

MaxRuns == 2    \* workflow runs in a runs response
MaxJobs == 3    \* jobs in a jobs response
MaxCalls == 2   \* operations a caller invokes one after the other

\* runs as the API may list them: ids, creation times and conclusions in no
\* particular relation to the position
RunObjects == {
  [id |-> 11, created_at |-> 2, conclusion |-> "failure"],
  [id |-> 13, created_at |-> 3, conclusion |-> "failure"],
  [id |-> 12, created_at |-> 1, conclusion |-> "success"] }

\* the bodies of a runs response: with no workflow_runs field, with a null
\* one, or with a list
RunsBodies ==
  {[workflow_runs |-> Undefined], [workflow_runs |-> Null]}
  \cup {[workflow_runs |-> Array(rs)] : rs \in SeqsUpTo(RunObjects, MaxRuns)}

StepConclusions == {
  <<>>,
  <<"skipped", "failure">>,
  <<"failure", "success", "failure">> }

JobShapes == [conclusion : {"failure", "success"}, steps : StepConclusions]

\* steps numbered from 1, named and timed by their place
MakeSteps(cs, j) ==
  [n \in 1..Len(cs) |->
     [name |-> <<"step", j, n>>, number |-> n, conclusion |-> cs[n],
      started_at |-> 100 * j + 10 * n, completed_at |-> 100 * j + 10 * n + 1]]

\* jobs named and timed by their place in the response
MakeJobs(shapes) ==
  [j \in 1..Len(shapes) |->
     [name |-> <<"job", j>>, conclusion |-> shapes[j].conclusion,
      started_at |-> 100 * j, completed_at |-> 100 * j + 99,
      steps |-> MakeSteps(shapes[j].steps, j)]]

JobsBodies ==
  {[jobs |-> Undefined]}
  \cup {[jobs |-> Array(MakeJobs(shapes))] : shapes \in SeqsUpTo(JobShapes, MaxJobs)}

LogsBody == [tag |-> "buffer", bytes |-> <<"f", "a", "t", "a", "l", ":", " ", "c", "\n">>]

DefaultRuns == [workflow_runs |-> Array(<<>>)]

DefaultJobs == [jobs |-> Array(<<>>)]

\* The repository on the remote side, fixed for a behaviour.  The runs and
\* the jobs listings are read by different operations: one of them varies,
\* the other is empty.
Remotes ==
  {[runs |-> r, jobs |-> DefaultJobs, logs |-> LogsBody] : r \in RunsBodies}
  \cup {[runs |-> DefaultRuns, jobs |-> j, logs |-> LogsBody] : j \in JobsBodies}

\* how axios.get rejects: without a response (network), or with one
Failures == {
  [message |-> "Network Error", response |-> Undefined],
  [message |-> "Request failed with status code 404",
   response |-> [status |-> 404, data |-> "Not Found"]],
  [message |-> "Request failed with status code 500",
   response |-> [status |-> 500, data |-> "Server Error"]] }

RunIds == {1001, 1002}
-----------------------------------------------------------------------------
(* The Express application: POST /agent/analyze *)

MaxRequests == 2   \* requests the server is sent one after the other

\* a field of the JSON body: t is the JavaScript type, v the value's text;
\* a field the body does not have reads as undefined
Absent == [t |-> "undefined", v |-> ""]

\* if (!x): undefined, null, "", 0 and false are falsy
Truthy(x) ==
  CASE x.t \in {"undefined", "null"} -> FALSE
    [] x.t = "string" -> x.v # ""
    [] x.t = "number" -> x.v # "0"
    [] x.t = "boolean" -> x.v = "true"
    [] OTHER -> TRUE

\* JSON.stringify of an object's property: an undefined one is left out
ToJson(x) == IF x.t = "undefined" THEN [t |-> "(omitted)", v |-> ""] ELSE x

NoResponse == [status |-> 0, json |-> [kind |-> "none"]]

\* res.status(400).json({error: ...}), line 31
MissingErrorLog ==
  [status |-> 400,
   json |-> [kind |-> "error", error |-> "Missing required field: errorLog"]]

\* res.json({status, message, timestamp, metadata}), line 46
Received(body) ==
  [status |-> 200,
   json |-> [kind |-> "received",
             status |-> "received",
             message |-> "Failure data logged. AI analysis not yet implemented.",
             timestamp |-> "new Date().toISOString()",
             metadata |-> [runId |-> ToJson(body.runId),
                           runUrl |-> ToJson(body.runUrl),
                           repository |-> ToJson(body.repository),
                           failedJobs |-> ToJson(body.failedJobs)]]]

\* errorLog.substring(0, 500), line 42: only a string has the method
SubstringThrows(errorLog) == errorLog.t # "string"

\* The async handler throws: its promise rejects and the handler has no
\* catch.  What follows depends on the Express and Node versions: the
\* request is never answered, the process ends on the unhandled rejection,
\* or the framework's error handler answers 500.
UnhandledRejection ==
  { [res |-> NoResponse, up |-> TRUE],
    [res |-> NoResponse, up |-> FALSE],
    [res |-> [status |-> 500, json |-> [kind |-> "error", error |-> "Internal Server Error"]],
     up |-> TRUE] }

\* the handler of POST /agent/analyze, lines 23-52: the outcomes it can have
analyze(body) ==
  IF ~Truthy(body.errorLog) THEN {[res |-> MissingErrorLog, up |-> TRUE]}
  ELSE IF SubstringThrows(body.errorLog) THEN UnhandledRejection
  ELSE {[res |-> Received(body), up |-> TRUE]}

ErrorLogs == {
  Absent,
  [t |-> "null", v |-> ""],
  [t |-> "string", v |-> ""],
  [t |-> "string", v |-> "x"],
  [t |-> "string", v |-> "Error: disk full"],
  [t |-> "number", v |-> "123"],
  [t |-> "number", v |-> "0"],
  [t |-> "array", v |-> "[\"Error: disk full\"]"] }

\* JSON bodies express.json() parses into an object
Bodies ==
  [errorLog : ErrorLogs,
   runId : {Absent, [t |-> "number", v |-> "42"]},
   runUrl : {Absent, [t |-> "string", v |-> "https://github.com/o/r/actions/runs/42"]},
   repository : {Absent, [t |-> "string", v |-> "o/r"]},
   failedJobs : {Absent, [t |-> "array", v |-> "[\"build\"]"]}]
-----------------------------------------------------------------------------
(* State machines *)

Pending == [raised |-> FALSE, branch |-> "pending", value |-> <<>>,
            logText |-> <<>>, errors |-> <<>>]

NoRejection == [has |-> FALSE]

NoReport == [has |-> FALSE]

NotInvoked == [op |-> "none", runId |-> 0]

NoRequest == [errorLog |-> Absent, runId |-> Absent, runUrl |-> Absent,
              repository |-> Absent, failedJobs |-> Absent]

\* no extraction is asked for
LogsIdle ==
  /\ logBuffer = [type |-> "null", data |-> <<>>]
  /\ extracted = Pending

\* no API operation is in progress
ApiIdle ==
  /\ stack = <<>>
  /\ pending = FALSE
  /\ signal = NoSignal
  /\ requests = <<>>
  /\ rejected = NoRejection
  /\ outcome = NoSignal
  /\ invoked = NotInvoked
  /\ calls = 0
  /\ nextId = 1
  /\ prevReport = NoReport

\* the server is up and has served nothing
HttpIdle ==
  /\ serverUp = TRUE
  /\ served = 0
  /\ lastBody = NoRequest
  /\ lastRes = NoResponse

(* ---- extractErrorsFromLogs ---- *)

InitLogs ==
  /\ logBuffer \in LogBuffers
  /\ extracted = Pending
  /\ remote = [runs |-> DefaultRuns, jobs |-> DefaultJobs, logs |-> LogsBody]
  /\ ApiIdle
  /\ HttpIdle

\* a caller runs extractErrorsFromLogs(logBuffer)
Extract ==
  /\ extracted.branch = "pending"
  /\ extracted' = extractErrorsFromLogs(logBuffer)
  /\ UNCHANGED <<logBuffer, apiVars, httpVars>>

NextLogs == Extract

SpecLogs == InitLogs /\ [][NextLogs]_vars

(* ---- the API operations ---- *)

InitApi ==
  /\ remote \in Remotes
  /\ ApiIdle
  /\ LogsIdle
  /\ HttpIdle

\* The synchronous start of an operation, up to its first await: the frames
\* it stacks and the one GET the innermost issues.
Begin(op, frames, runId, url, params) ==
  /\ calls < MaxCalls
  /\ invoked' = [op |-> op, runId |-> runId]
  /\ stack' = frames
  /\ requests' = <<[method |-> "GET", url |-> url, params |-> params]>>
  /\ pending' = TRUE
  /\ signal' = NoSignal
  /\ outcome' = NoSignal
  /\ rejected' = NoRejection
  /\ prevReport' = IF invoked.op = "extractFailureInfo" /\ outcome.kind = "return"
                   THEN [has |-> TRUE, runId |-> invoked.runId, report |-> outcome.value]
                   ELSE NoReport
  /\ UNCHANGED <<remote, calls, nextId, logVars, httpVars>>

\* no operation is in progress: the caller awaits each before the next
CallerReady == stack = <<>>

Call_getWorkflowRuns(status, conclusion) ==
  /\ CallerReady
  /\ Begin("getWorkflowRuns", <<"getWorkflowRuns">>, 0, "runs",
           RunsParams(status, conclusion))

Call_getLastFailedRun ==
  /\ CallerReady
  /\ Begin("getLastFailedRun", <<"getLastFailedRun", "getWorkflowRuns">>, 0, "runs",
           RunsParams("completed", "failure"))

Call_getWorkflowRunLogs(runId) ==
  /\ CallerReady
  /\ Begin("getWorkflowRunLogs", <<"getWorkflowRunLogs">>, runId, "logs",
           [responseType |-> "arraybuffer"])

Call_getWorkflowRunJobs(runId) ==
  /\ CallerReady
  /\ Begin("getWorkflowRunJobs", <<"getWorkflowRunJobs">>, runId, "jobs",
           [none |-> TRUE])

Call_extractFailureInfo(runId) ==
  /\ CallerReady
  /\ Begin("extractFailureInfo", <<"extractFailureInfo", "getWorkflowRunJobs">>,
           runId, "jobs", [none |-> TRUE])

\* the body the remote answers the pending GET with
ResponseBody ==
  LET url == requests[Len(requests)].url
  IN CASE url = "runs" -> remote.runs
       [] url = "jobs" -> remote.jobs
       [] url = "logs" -> remote.logs

\* axios.get resolves
AxiosResolve ==
  /\ pending
  /\ pending' = FALSE
  /\ signal' = Return([data |-> ResponseBody])
  /\ UNCHANGED <<remote, stack, requests, rejected, outcome, invoked, calls,
                 nextId, prevReport, logVars, httpVars>>

\* axios.get rejects with a new error object
AxiosReject(failure) ==
  /\ pending
  /\ pending' = FALSE
  /\ LET error == [id |-> nextId, message |-> failure.message,
                   response |-> failure.response]
     IN /\ signal' = Throw(error)
        /\ rejected' = [has |-> TRUE, error |-> error]
  /\ nextId' = nextId + 1
  /\ UNCHANGED <<remote, stack, requests, outcome, invoked, calls,
                 prevReport, logVars, httpVars>>

\* the top frame ends with sig: its caller's await settles with it, or, for
\* the outermost frame, the operation's caller gets it
Leave(sig) ==
  /\ stack' = SubSeq(stack, 1, Len(stack) - 1)
  /\ IF Len(stack) = 1
     THEN /\ outcome' = sig
          /\ signal' = NoSignal
          /\ calls' = calls + 1
     ELSE /\ signal' = sig
          /\ UNCHANGED <<outcome, calls>>
  /\ UNCHANGED <<remote, pending, requests, rejected, invoked, nextId,
                 prevReport, logVars, httpVars>>

\* the frame fn is on top and what it awaits has settled
Resumes(fn) ==
  /\ stack # <<>>
  /\ stack[Len(stack)] = fn
  /\ ~pending
  /\ signal.kind # "none"

Resume_getWorkflowRuns ==
  Resumes("getWorkflowRuns") /\ Leave(then_getWorkflowRuns(signal))

Resume_getLastFailedRun ==
  Resumes("getLastFailedRun") /\ Leave(then_getLastFailedRun(signal))

Resume_getWorkflowRunLogs ==
  Resumes("getWorkflowRunLogs") /\ Leave(then_getWorkflowRunLogs(signal))

Resume_getWorkflowRunJobs ==
  Resumes("getWorkflowRunJobs") /\ Leave(then_getWorkflowRunJobs(signal))

Resume_extractFailureInfo ==
  Resumes("extractFailureInfo") /\ Leave(then_extractFailureInfo(signal, invoked.runId))

NextApi ==
  \/ \E p \in {<<"completed", "failure">>, <<"", "">>} : Call_getWorkflowRuns(p[1], p[2])
  \/ Call_getLastFailedRun
  \/ \E runId \in RunIds : Call_getWorkflowRunLogs(runId)
  \/ \E runId \in RunIds : Call_getWorkflowRunJobs(runId)
  \/ \E runId \in RunIds : Call_extractFailureInfo(runId)
  \/ AxiosResolve
  \/ \E failure \in Failures : AxiosReject(failure)
  \/ Resume_getWorkflowRuns
  \/ Resume_getLastFailedRun
  \/ Resume_getWorkflowRunLogs
  \/ Resume_getWorkflowRunJobs
  \/ Resume_extractFailureInfo

SpecApi == InitApi /\ [][NextApi]_vars

(* ---- the HTTP server ---- *)

InitHttp ==
  /\ HttpIdle
  /\ LogsIdle
  /\ remote = [runs |-> DefaultRuns, jobs |-> DefaultJobs, logs |-> LogsBody]
  /\ ApiIdle

\* a POST /agent/analyze with a JSON body arrives and the handler runs
PostAnalyze(body) ==
  /\ serverUp
  /\ served < MaxRequests
  /\ \E o \in analyze(body) :
       /\ lastRes' = o.res
       /\ serverUp' = o.up
  /\ lastBody' = body
  /\ served' = served + 1
  /\ UNCHANGED <<logVars, apiVars>>

NextHttp == \E body \in Bodies : PostAnalyze(body)

SpecHttp == InitHttp /\ [][NextHttp]_vars

-----------------------------------------------------------------------------
(* Vocabulary of the log-extractor claims, stated on lines of the log *)

Done == extracted.branch # "pending"

IsText == logBuffer.type \in {"Buffer", "string"}

\* the log text the call works on
InputText == IF logBuffer.type = "Buffer" THEN DecodeUtf8(logBuffer.data) ELSE logBuffer.data

Newline == {"\n"}

Terminators == {"\n", "\r", "U+2028", "U+2029"}

\* the marker lit stands in s at index i, in any letter case
MarkerAt(s, lit, i) ==
  /\ i >= 1
  /\ i + Len(lit) - 1 <= Len(s)
  /\ \A k \in 1..Len(lit) : Canonicalize(s[i + k - 1]) = Canonicalize(lit[k])

\* where in a line the marker stands with at least one character after it
MarkerStarts(line, lit) ==
  {i \in 1..Len(line) : MarkerAt(line, lit, i) /\ i + Len(lit) <= Len(line)}

\* the match a line gives a pattern: from its first marker to its end
LineMatch(line, lit) ==
  IF MarkerStarts(line, lit) = {} THEN <<>>
  ELSE <<SubSeq(line, Least(MarkerStarts(line, lit)), Len(line))>>

\* the matches of one pattern, line by line in document order
PatternMatches(text, lit) ==
  LET lines == SplitOn(text, Terminators)
  IN Flatten([n \in 1..Len(lines) |-> LineMatch(lines[n], lit)])

\* pattern by pattern in declared order
ExpectedErrors(text) ==
  Flatten([k \in 1..Len(errorPatterns) |-> PatternMatches(text, errorPatterns[k])])

SomePatternMatches(text) == ExpectedErrors(text) # <<>>

\* a line as the spec describes a matching one: it begins with Error:,
\* Failed: or fatal: in any letter case, or carries [error]
DeclaredLine(line) ==
  \/ \E k \in {1, 2, 3, 4, 6} : MarkerAt(line, errorPatterns[k], 1)
  \/ \E i \in 1..Len(line) : MarkerAt(line, errorPatterns[5], i)

Range(s) == {s[i] : i \in 1..Len(s)}

ScenarioExcerpt ==
  <<"E", "r", "r", "o", "r", ":", " ", "d", "i", "s", "k", " ", "f", "u", "l",
    "l", "\n", "E", "R", "R", "O", "R", ":", " ", "r", "e", "t", "r", "y", " ",
    "f", "a", "i", "l", "e", "d">>

-----------------------------------------------------------------------------
(* Claims about extractErrorsFromLogs *)

\* C1: for the log "foo\nError: disk full\nbar\nERROR: retry failed\n" the
\* call returns exactly "Error: disk full\nERROR: retry failed".
C1_ScenarioExcerpt ==
  (Done /\ IsText /\ InputText = ScenarioLog) => extracted.value = ScenarioExcerpt

\* C2 as stated: when some line of the log begins with a marker (or carries
\* [error]), the call returns through the pattern branch a non-empty string
\* whose every line is such a line of the log.
C2_DeclaredLineGivesMatchedLines ==
  (Done /\ IsText /\ \E l \in Range(SplitOn(InputText, Newline)) : DeclaredLine(l))
    => /\ extracted.branch = "errors"
       /\ extracted.value # <<>>
       /\ \A l \in Range(SplitOn(extracted.value, Newline)) :
            l \in Range(SplitOn(InputText, Newline)) /\ DeclaredLine(l)

\* C2 amended: when some pattern matches (a marker, in any letter case and
\* anywhere in a line, with at least one character after it on that line),
\* the call returns through the pattern branch, not the tail, a non-empty
\* string whose every line is the part of a log line from a marker to the
\* line's end.
C2_MatchGivesMarkerSuffixes ==
  (Done /\ IsText /\ SomePatternMatches(InputText))
    => /\ extracted.branch = "errors"
       /\ extracted.value # <<>>
       /\ \A l \in Range(SplitOn(extracted.value, Newline)) :
            \E line \in Range(SplitOn(InputText, Terminators)) :
              \E k \in 1..Len(errorPatterns) :
                \E i \in MarkerStarts(line, errorPatterns[k]) :
                  l = SubSeq(line, i, Len(line))

\* a match that starts inside its line, and a line that begins with a marker
\* and has nothing after it
C2_Witness ==
  /\ Done /\ IsText /\ extracted.branch = "errors"
  /\ \E line \in Range(SplitOn(InputText, Terminators)) :
       \E k \in 1..Len(errorPatterns) :
         \E i \in MarkerStarts(line, errorPatterns[k]) : i > 1
  /\ \E line \in Range(SplitOn(InputText, Terminators)) :
       DeclaredLine(line) /\ ~SomePatternMatches(line)

\* C3: when no pattern matches anywhere, the call returns exactly the last
\* min(2000, len) characters of the text: the whole text when it has at most
\* 2000, and the empty string only for the empty text.
C3_TailWhenNoMatch ==
  (Done /\ IsText /\ ~SomePatternMatches(InputText))
    => LET text == InputText
           out == extracted.value
       IN /\ extracted.branch = "tail"
          /\ Len(out) = Min(TailLength, Len(text))
          /\ \A i \in 1..Len(out) : out[i] = text[Len(text) - Len(out) + i]
          /\ (Len(text) <= TailLength => out = text)
          /\ (out = <<>> => text = <<>>)

\* a log longer than 2000 characters without a match
C3_Witness ==
  /\ Done /\ IsText /\ ~SomePatternMatches(InputText)
  /\ Len(InputText) > TailLength
  /\ extracted.value # InputText

\* C4: the string returned from pattern matches has at most 50 lines: its
\* lines are the first 50 elements of the match list, none of which spans
\* more than one line.
C4_AtMostFiftyLines ==
  (Done /\ extracted.branch = "errors")
    => LET lines == SplitOn(extracted.value, Newline)
           errors == extracted.errors
       IN /\ Len(lines) <= MaxErrors
          /\ Len(lines) = Min(MaxErrors, Len(errors))
          /\ \A i \in 1..Len(lines) : lines[i] = errors[i]
          /\ \A i \in 1..Len(errors) : "\n" \notin Range(errors[i])

\* more than 50 matches, of which the 51st is left out
C4_Witness ==
  /\ Done /\ extracted.branch = "errors"
  /\ Len(extracted.errors) > MaxErrors
  /\ Len(SplitOn(extracted.value, Newline)) = MaxErrors

\* C5: the match list holds the matches of the first pattern, then those of
\* the second, and so on, whatever their places in the text; each pattern
\* gives all its matches, in document order; the excerpt is the newline-join
\* of the list cut to 50.
C5_PatternOrderThenDocumentOrder ==
  (Done /\ IsText)
    => /\ extracted.errors = ExpectedErrors(InputText)
       /\ extracted.branch = "errors"
            => extracted.value =
                 Join(SubSeq(extracted.errors, 1, Min(MaxErrors, Len(extracted.errors))),
                      <<"\n">>)

\* a later pattern matches on an earlier line than an earlier pattern, which
\* has two matches or more
C5_Witness ==
  /\ Done /\ IsText
  /\ LET lines == SplitOn(InputText, Terminators)
     IN \E k1, k2 \in 1..Len(errorPatterns) :
          /\ k1 < k2
          /\ Len(PatternMatches(InputText, errorPatterns[k1])) >= 2
          /\ \E n1, n2 \in 1..Len(lines) :
               /\ n2 < n1
               /\ LineMatch(lines[n1], errorPatterns[k1]) # <<>>
               /\ LineMatch(lines[n2], errorPatterns[k2]) # <<>>
               /\ LineMatch(lines[n2], errorPatterns[k1]) = <<>>

-----------------------------------------------------------------------------
(* Claims about the API operations *)

\* the indexes of the items whose conclusion is failure
FailureIndexes(items) == {i \in 1..Len(items) : items[i].conclusion = "failure"}

\* the k-th smallest element of a set of integers
Nth(S, k) == CHOOSE i \in S : Cardinality({j \in S : j < i}) = k - 1

\* the job sequence the jobs fetch returns
FetchedJobs ==
  IF remote.jobs.jobs = Undefined THEN <<>> ELSE remote.jobs.jobs.items

ReturnedReport == invoked.op = "extractFailureInfo" /\ outcome.kind = "return"

\* C6: the report's failedJobs are exactly the jobs whose conclusion is
\* failure, in input order, each with exactly its failed steps in step
\* order; failedJobsCount is their number (0 and an empty sequence when no
\* job failed); a second report built from the same job sequence is equal.
C6_ReportIsFilteredInOrder ==
  ReturnedReport
    => LET jobs == FetchedJobs
           report == outcome.value
           F == FailureIndexes(jobs)
       IN /\ report.failedJobsCount = Len(report.failedJobs)
          /\ Len(report.failedJobs) = Cardinality(F)
          /\ \A k \in 1..Len(report.failedJobs) :
               LET job == jobs[Nth(F, k)]
                   out == report.failedJobs[k]
                   G == FailureIndexes(job.steps)
               IN /\ out.name = job.name
                  /\ out.conclusion = "failure"
                  /\ Len(out.failedSteps) = Cardinality(G)
                  /\ \A m \in 1..Len(out.failedSteps) :
                       /\ out.failedSteps[m].name = job.steps[Nth(G, m)].name
                       /\ out.failedSteps[m].number = job.steps[Nth(G, m)].number
                       /\ out.failedSteps[m].conclusion = "failure"
          /\ F = {} => (report.failedJobsCount = 0 /\ report.failedJobs = <<>>)
          /\ prevReport.has
               => /\ report.failedJobsCount = prevReport.report.failedJobsCount
                  /\ report.failedJobs = prevReport.report.failedJobs
                  /\ prevReport.runId = invoked.runId => report = prevReport.report

\* a second report in a row for the same run: two failed jobs kept in
\* order, a job dropped, and a job with two failed steps around a step that
\* did not fail
C6_Witness ==
  /\ ReturnedReport
  /\ prevReport.has
  /\ prevReport.runId = invoked.runId
  /\ Len(outcome.value.failedJobs) >= 2
  /\ Len(FetchedJobs) > Len(outcome.value.failedJobs)
  /\ \E k \in 1..Len(outcome.value.failedJobs) :
       /\ Len(outcome.value.failedJobs[k].failedSteps) = 2
       /\ outcome.value.failedJobs[k].failedSteps[2].number = 3

\* C8: getLastFailedRun returns null, without raising, when the runs query
\* yields an empty sequence (a response without workflow_runs included);
\* otherwise it returns the first element of the sequence as the API
\* ordered it, whatever the timestamps, ids and conclusions.
C8_FirstRunOrNull ==
  (invoked.op = "getLastFailedRun" /\ outcome.kind # "none" /\ ~rejected.has)
    => LET listed == remote.runs.workflow_runs
       IN IF listed \in {Undefined, Null} \/ listed.items = <<>>
          THEN outcome = Return(Null)
          ELSE outcome = Return(listed.items[1])

\* the run returned is older than another run of the response, and its
\* conclusion is not failure
C8_Witness ==
  /\ invoked.op = "getLastFailedRun"
  /\ outcome.kind = "return"
  /\ outcome.value # Null
  /\ outcome.value.conclusion # "failure"
  /\ remote.runs.workflow_runs \notin {Undefined, Null}
  /\ \E i \in 1..Len(remote.runs.workflow_runs.items) :
       remote.runs.workflow_runs.items[i].created_at > outcome.value.created_at

\* C9: an invocation of any of the five operations issues exactly one GET;
\* when that GET fails no other request follows, no value is returned, and
\* the caller is thrown the very error object axios rejected with (same
\* identity, message, status and payload), through every frame.
C9_OneGetAndSameError ==
  /\ invoked.op # "none" => (Len(requests) = 1 /\ requests[1].method = "GET")
  /\ rejected.has => ~pending
  /\ (rejected.has /\ signal.kind # "none") => signal = Throw(rejected.error)
  /\ (rejected.has /\ outcome.kind # "none") => outcome = Throw(rejected.error)
  /\ (outcome.kind = "throw") => rejected.has

\* a 404 reaches the caller of getLastFailedRun through both frames
C9_Witness ==
  /\ invoked.op = "getLastFailedRun"
  /\ stack = <<>>
  /\ outcome.kind = "throw"
  /\ outcome.error.response # Undefined
  /\ outcome.error.response.status = 404
  /\ Len(requests) = 1

-----------------------------------------------------------------------------
(* Claims about POST /agent/analyze *)

\* a field as the response echoes it: as supplied, and left out when absent
Echo(x) == IF x = Absent THEN [t |-> "(omitted)", v |-> ""] ELSE x

\* C7: a request without errorLog is answered 400 with {error: "Missing
\* required field: errorLog"}; every other request is answered 200 with
\* status "received" and a metadata object echoing runId, runUrl,
\* repository and failedJobs as supplied.  Stated for the requests whose
\* errorLog is missing, or present and not empty (truthy), so that what
\* "absent" covers is not in question.
C7_EitherRejectedOrReceived ==
  (served > 0 /\ (lastBody.errorLog = Absent \/ Truthy(lastBody.errorLog)))
    => IF lastBody.errorLog = Absent
       THEN lastRes = MissingErrorLog
       ELSE /\ lastRes.status = 200
            /\ lastRes.json.kind = "received"
            /\ lastRes.json.status = "received"
            /\ lastRes.json.metadata =
                 [runId |-> Echo(lastBody.runId), runUrl |-> Echo(lastBody.runUrl),
                  repository |-> Echo(lastBody.repository),
                  failedJobs |-> Echo(lastBody.failedJobs)]

=============================================================================
